---------------------------- MODULE Spec2Model ----------------------------
(***************************************************************************)
(* A model of the notif package: the Notificator channels                  *)
(* (src/notif/notificator.py) and the notification_on_fail decorator       *)
(* (src/notif/fail_decorator.py).                                          *)
(*                                                                         *)
(* Python strings are sequences of one-character strings, so that          *)
(* concatenation, formatting and JSON escaping are computed and not        *)
(* assumed.  None is the record [none |-> TRUE]; a present optional value  *)
(* is [val |-> v].                                                         *)
(***************************************************************************)
EXTENDS Integers, Sequences, FiniteSets, TLC

VARIABLES
    libs,      \* the optional client libraries that imported (module globals)
    objs,      \* the Notificator instances: their fields
    pc,        \* where the single thread of control stands
    send,      \* the running send_notification frame, or NoFrame
    wrap,      \* the running decorated(...) frame, or NoFrame
    events,    \* what the collaborators saw during the current top-level call
    result,    \* how the last top-level call ended
    prev,      \* the send_notification call the script made just before
    smtp,      \* the state of the SMTP handle given to each instance
    threads    \* where each thread that owns an instance stands (SpecTwo)

vars == <<libs, objs, pc, send, wrap, events, result, prev, smtp, threads>>

None == [none |-> TRUE]
Some(v) == [val |-> v]
NoFrame == [frame |-> "none"]
NoObj == [kind |-> "none"]
NoResult == [op |-> "none"]
NoPrev == [call |-> "none"]

----------------------------------------------------------------------------
(* Strings *)

S_SlackDefault == <<"P", "y", "t", "h", "o", "n", " ", "s", "c", "r", "i", "p", "t", " ", "S", "l", "a", "c", "k", " ", "n", "o", "t", "i", "f", "i", "c", "a", "t", "i", "o", "n">>
S_EmailDefault == <<"P", "y", "t", "h", "o", "n", " ", "s", "c", "r", "i", "p", "t", " ", "n", "o", "t", "i", "f", "i", "c", "a", "t", "i", "o", "n", " ", "e", "m", "a", "i", "l">>
S_ChannelDefault == <<"P", "y", "t", "h", "o", "n", " ", "s", "c", "r", "i", "p", "t", " ", "n", "o", "t", "i", "f", "i", "c", "a", "t", "i", "o", "n">>
S_TeamsDefault == <<"P", "y", "t", "h", "o", "n", " ", "s", "c", "r", "i", "p", "t", " ", "T", "e", "a", "m", "s", " ", "n", "o", "t", "i", "f", "i", "c", "a", "t", "i", "o", "n">>
S_DiscordDefault == <<"P", "y", "t", "h", "o", "n", " ", "s", "c", "r", "i", "p", "t", " ", "D", "i", "s", "c", "o", "r", "d", " ", "n", "o", "t", "i", "f", "i", "c", "a", "t", "i", "o", "n">>
S_Subject == <<"S", "u", "b", "j", "e", "c", "t", ":", " ">>
S_Retry1 == <<"E", "r", "r", "o", "r", " ", "w", "h", "e", "n", " ", "t", "r", "y", "i", "n", "g", " ", "t", "o", " ", "s", "e", "n", "d", " ", "n", "o", "t", "i", "f", "i", "c", "a", "t", "i", "o", "n", ".", " ", "W", "i", "l", "l", " ", "r", "e", "t", "r", "y", " ", "i", "n", " ">>
S_Retry2 == <<" ", "s", "e", "c", "o", "n", "d", "s", ".">>
S_Abort == <<"S", "e", "c", "o", "n", "d", " ", "e", "r", "r", "o", "r", " ", "w", "h", "e", "n", " ", "t", "r", "y", "i", "n", "g", " ", "t", "o", " ", "s", "e", "n", "d", " ", "n", "o", "t", "i", "f", "i", "c", "a", "t", "i", "o", "n", ",", " ", "w", "i", "l", "l", " ", "a", "b", "o", "r", "t", " ", "s", "e", "n", "d", "i", "n", "g", " ", "m", "e", "s", "s", "a", "g", "e", ".">>
S_Verbose1a == <<"A", "n", " ", "e", "r", "r", "o", "r", " ", "o", "c", "c", "u", "r", "r", "e", "d", " ", "o", "f", " ", "t", "y", "p", "e", " ">>
S_Verbose1b == <<" ", "w", "h", "e", "n", " ", "r", "u", "n", "n", "i", "n", "g", " ", "t", "h", "e", " ", "s", "c", "r", "i", "p", "t", ".">>
S_Verbose2 == <<"A", "n", " ", "e", "r", "r", "o", "r", " ", "o", "c", "c", "u", "r", "r", "e", "d", " ", "w", "h", "e", "n", " ", "r", "u", "n", "n", "i", "n", "g", " ", "t", "h", "e", " ", "s", "c", "r", "i", "p", "t", ".", " ", "T", "h", "e", " ", "e", "r", "r", "o", "r", " ", "m", "e", "s", "s", "a", "g", "e", " ", "i", "s", ":", " ">>
S_Traceback == <<"T", "r", "a", "c", "e", "b", "a", "c", "k", " ", "(", "m", "o", "s", "t", " ", "r", "e", "c", "e", "n", "t", " ", "c", "a", "l", "l", " ", "l", "a", "s", "t", ")", ":", "\n">>

\* str(d) of one decimal digit
DigitChar(d) ==
    CASE d = 0 -> "0" [] d = 1 -> "1" [] d = 2 -> "2" [] d = 3 -> "3"
      [] d = 4 -> "4" [] d = 5 -> "5" [] d = 6 -> "6" [] d = 7 -> "7"
      [] d = 8 -> "8" [] d = 9 -> "9"

RECURSIVE IntStr(_)
\* str(n) of a natural number, as "{}".format(n) renders it
IntStr(n) ==
    IF n < 10 THEN <<DigitChar(n)>>
    ELSE IntStr(n \div 10) \o <<DigitChar(n % 10)>>

----------------------------------------------------------------------------
(* json.dumps of a one-key dict whose value is a string *)

\* Mutant of JsonEscapeChar: the characters are copied without escaping.
JsonEscapeChar_Raw(c) == <<c>>

\* the escape json.dumps gives one character (ensure_ascii output of the
\* characters the model uses)
JsonEscapeChar(c) ==
    CASE c = "\"" -> <<"\\", "\"">>
      [] c = "\\" -> <<"\\", "\\">>
      [] c = "\n" -> <<"\\", "n">>
      [] OTHER -> <<c>>

RECURSIVE JsonEscape(_)
\* the escapes of the characters of s, in order (split in halves: the order
\* of evaluation does not change the result)
JsonEscape(s) ==
    IF s = <<>> THEN <<>>
    ELSE IF Len(s) = 1 THEN JsonEscapeChar(s[1])
    ELSE LET half == Len(s) \div 2
         IN JsonEscape(SubSeq(s, 1, half)) \o JsonEscape(SubSeq(s, half + 1, Len(s)))

\* json.dumps({key: value}) == '{"key": "value"}'
JsonDumps(key, value) ==
    <<"{", "\"">> \o key \o <<"\"", ":", " ", "\"">> \o JsonEscape(value) \o <<"\"", "}">>

----------------------------------------------------------------------------
(* Errors *)

S_NeedRequests == <<"p", "a", "c", "k", "a", "g", "e", " ", "r", "e", "q", "u", "e", "s", "t", "s", " ", "n", "e", "e", "d", " ", "t", "o", " ", "b", "e", " ", "i", "n", "s", "t", "a", "l", "l", "e", "d", " ", "t", "o", " ", "u", "s", "e", " ", "t", "h", "i", "s", " ", "c", "l", "a", "s", "s", ".">>
S_NeedNotifyRun == <<"p", "a", "c", "k", "a", "g", "e", " ", "n", "o", "t", "i", "f", "y", "_", "r", "u", "n", " ", "n", "e", "e", "d", " ", "t", "o", " ", "b", "e", " ", "i", "n", "s", "t", "a", "l", "l", "e", "d", " ", "t", "o", " ", "u", "s", "e", " ", "t", "h", "i", "s", " ", "c", "l", "a", "s", "s", ".">>
S_NeedPymsteams == <<"p", "a", "c", "k", "a", "g", "e", " ", "p", "y", "m", "s", "t", "e", "a", "m", "s", " ", "n", "e", "e", "d", " ", "t", "o", " ", "b", "e", " ", "i", "n", "s", "t", "a", "l", "l", "e", "d", " ", "t", "o", " ", "u", "s", "e", " ", "t", "h", "i", "s", " ", "c", "l", "a", "s", "s", ".">>
S_NeedRequest == <<"p", "a", "c", "k", "a", "g", "e", " ", "r", "e", "q", "u", "e", "s", "t", " ", "n", "e", "e", "d", " ", "t", "o", " ", "b", "e", " ", "i", "n", "s", "t", "a", "l", "l", "e", "d", " ", "t", "o", " ", "u", "s", "e", " ", "t", "h", "i", "s", " ", "c", "l", "a", "s", "s", ".">>
S_NoneTypeAttr == <<"'", "N", "o", "n", "e", "T", "y", "p", "e", "'", " ", "o", "b", "j", "e", "c", "t", " ", "h", "a", "s", " ", "n", "o", " ", "a", "t", "t", "r", "i", "b", "u", "t", "e", " ", "'", "e", "x", "c", "e", "p", "t", "i", "o", "n", "s", "'">>

\* An exception object: its class, its args tuple, and the place that raised
\* it (two objects raised at different places are different objects).
Error(type, args, origin) == [type |-> type, args |-> args, origin |-> origin]

\* The classes an exception class derives from, itself included (the
\* hierarchy `except <class>` matches against).
Bases(type) ==
    CASE type = "HTTPError" ->
             {"HTTPError", "RequestException", "OSError", "Exception", "BaseException"}
      [] type = "ConnectionError" ->
             {"ConnectionError", "RequestException", "OSError", "Exception", "BaseException"}
      [] type = "SMTPRecipientsRefused" ->
             {"SMTPRecipientsRefused", "SMTPException", "OSError", "Exception", "BaseException"}
      [] type = "SMTPException" ->
             {"SMTPException", "OSError", "Exception", "BaseException"}
      [] type = "TeamsWebhookException" ->
             {"TeamsWebhookException", "Exception", "BaseException"}
      [] type = "KeyboardInterrupt" -> {"KeyboardInterrupt", "BaseException"}
      [] OTHER -> {type, "Exception", "BaseException"}

\* isinstance(error, cls), the test of an `except cls:` clause
IsInstance(error, cls) == cls \in Bases(error.type)

----------------------------------------------------------------------------
(* The channels *)

Kinds == {"Slack", "Email", "Channel", "Teams", "Discord"}
Instances == {"n1"}
SleepTimes == {1, 120}

\* The constructor arguments of instance i (the destination and credentials
\* the caller chose for it).
WebhookUrl(i) == [webhook_of |-> i]
ChannelUrl(i) == [channel_of |-> i]
SenderEmail(i) == [sender_of |-> i]
DestinationEmail(i) == [destination_of |-> i]

\* Notificator.__init__: the fields every instance starts with.  The default
\* error type is read from the requests module, which is None when the
\* import failed.
NotificatorInit(on_error_sleep_time) ==
    IF "requests" \in libs
    THEN [ok |-> TRUE,
          obj |-> [on_error_sleep_time |-> on_error_sleep_time,
                   sending_method |-> None,
                   sending_payload |-> None,
                   raised_error_type |-> "HTTPError"]]
    ELSE [ok |-> FALSE,
          err |-> Error("AttributeError", <<S_NoneTypeAttr>>, "constructor")]

\* A constructor's outcome: the instance, or the error it raised; `calls` are
\* the collaborator calls it made.
Built(obj, calls) == [ok |-> TRUE, obj |-> obj, calls |-> calls]
Failed(err, calls) == [ok |-> FALSE, err |-> err, calls |-> calls]

SlackInit(i, on_error_sleep_time) ==
    LET base == NotificatorInit(on_error_sleep_time) IN
    IF ~base.ok THEN Failed(base.err, <<>>)
    ELSE IF "requests" \notin libs
    THEN Failed(Error("ImportError", <<S_NeedRequests>>, "constructor"), <<>>)
    ELSE Built([kind |-> "Slack",
                webhook_url |-> WebhookUrl(i),
                headers |-> [content_type |-> "application/json"],
                default_subject_message |-> S_SlackDefault,
                sending_method |-> Some("requests.post")] @@ base.obj, <<>>)

\* Mutant of EmailInit: the email class keeps the default error type.
EmailInit_DefaultKind(i, on_error_sleep_time, handshake) ==
    LET base == NotificatorInit(on_error_sleep_time)
        starttls == [ev |-> "smtp", call |-> "starttls"]
        login == [ev |-> "smtp", call |-> "login", user |-> SenderEmail(i)]
    IN
    IF ~base.ok THEN Failed(base.err, <<>>)
    ELSE IF handshake = "starttls"
    THEN Failed(Error("SMTPException", <<>>, "starttls"), <<starttls>>)
    ELSE IF handshake = "login"
    THEN Failed(Error("SMTPException", <<>>, "login"), <<starttls, login>>)
    ELSE Built([kind |-> "Email",
                sender_email |-> SenderEmail(i),
                destination_email |-> DestinationEmail(i),
                default_subject_message |-> S_EmailDefault,
                sending_method |-> Some("smtp_server.sendmail")] @@ base.obj,
               <<starttls, login>>)

\* `handshake` names the SMTP step that raises, or "ok".
EmailInit(i, on_error_sleep_time, handshake) ==
    LET base == NotificatorInit(on_error_sleep_time)
        starttls == [ev |-> "smtp", call |-> "starttls"]
        login == [ev |-> "smtp", call |-> "login", user |-> SenderEmail(i)]
    IN
    IF ~base.ok THEN Failed(base.err, <<>>)
    ELSE IF handshake = "starttls"
    THEN Failed(Error("SMTPException", <<>>, "starttls"), <<starttls>>)
    ELSE IF handshake = "login"
    THEN Failed(Error("SMTPException", <<>>, "login"), <<starttls, login>>)
    ELSE Built([kind |-> "Email",
                sender_email |-> SenderEmail(i),
                destination_email |-> DestinationEmail(i),
                default_subject_message |-> S_EmailDefault,
                sending_method |-> Some("smtp_server.sendmail"),
                raised_error_type |-> "SMTPRecipientsRefused"] @@ base.obj,
               <<starttls, login>>)

ChannelInit(i, on_error_sleep_time) ==
    LET base == NotificatorInit(on_error_sleep_time) IN
    IF ~base.ok THEN Failed(base.err, <<>>)
    ELSE IF "notify_run" \notin libs
    THEN Failed(Error("ImportError", <<S_NeedNotifyRun>>, "constructor"), <<>>)
    ELSE Built([kind |-> "Channel",
                notifier |-> ChannelUrl(i),
                default_subject_message |-> S_ChannelDefault,
                sending_method |-> Some("notifier.send")] @@ base.obj, <<>>)

TeamsInit(i, on_error_sleep_time) ==
    LET base == NotificatorInit(on_error_sleep_time) IN
    IF ~base.ok THEN Failed(base.err, <<>>)
    ELSE IF "pymsteams" \notin libs
    THEN Failed(Error("ImportError", <<S_NeedPymsteams>>, "constructor"), <<>>)
    ELSE Built([kind |-> "Teams",
                teams_hook |-> WebhookUrl(i),
                default_subject_message |-> S_TeamsDefault,
                sending_method |-> Some("_wrapper_send"),
                raised_error_type |-> "TeamsWebhookException"] @@ base.obj, <<>>)

DiscordInit(i, on_error_sleep_time) ==
    LET base == NotificatorInit(on_error_sleep_time) IN
    IF ~base.ok THEN Failed(base.err, <<>>)
    ELSE IF "requests" \notin libs
    THEN Failed(Error("ImportError", <<S_NeedRequest>>, "constructor"), <<>>)
    ELSE Built([kind |-> "Discord",
                webhook_url |-> WebhookUrl(i),
                headers |-> [Content_Type |-> "application/json"],
                default_subject_message |-> S_DiscordDefault,
                sending_method |-> Some("requests.post")] @@ base.obj, <<>>)

\* Mutant of FormatSubject: the line break after the title is left out.
FormatSubject_NoNewline(kind, subject_message) ==
    CASE kind = "Slack" -> Some(<<"*">> \o subject_message \o <<"*">>)
      [] kind = "Email" -> None
      [] OTHER -> Some(<<"*", "*">> \o subject_message \o <<"*", "*">>)

\* _format_subject of each channel.  The email channel's body is `pass`: it
\* returns None.
FormatSubject(kind, subject_message) ==
    CASE kind = "Slack" -> Some(<<"*">> \o subject_message \o <<"*", "\n">>)
      [] kind = "Email" -> None
      [] kind = "Channel" -> Some(<<"*", "*">> \o subject_message \o <<"*", "*", "\n">>)
      [] kind = "Teams" -> Some(<<"*", "*">> \o subject_message \o <<"*", "*", "\n">>)
      [] kind = "Discord" -> Some(<<"*", "*">> \o subject_message \o <<"*", "*", "\n">>)

\* Mutant of SubjectOrDefault: the subject argument is ignored.
SubjectOrDefault_Always(obj, subject) == obj.default_subject_message

\* Mutant of SubjectOrDefault: a missing subject becomes the empty string.
SubjectOrDefault_Empty(obj, subject) ==
    IF subject # None THEN subject.val ELSE <<>>

\* Mutant of SubjectOrDefault: `subject or self.default_subject_message`.
SubjectOrDefault_Truthy(obj, subject) ==
    IF subject # None /\ subject.val # <<>> THEN subject.val
    ELSE obj.default_subject_message

\* `subject if subject is not None else self.default_subject_message`
SubjectOrDefault(obj, subject) ==
    IF subject # None THEN subject.val ELSE obj.default_subject_message

\* The keyword arguments send_notification stores in _sending_payload.
SendingPayload(obj, message, subject) ==
    LET subj == SubjectOrDefault(obj, subject) IN
    CASE obj.kind = "Slack" ->
             [url |-> obj.webhook_url,
              data |-> JsonDumps(<<"t", "e", "x", "t">>,
                                 FormatSubject("Slack", subj).val \o message),
              headers |-> obj.headers]
      [] obj.kind = "Email" ->
             [from_addr |-> obj.sender_email,
              to_addrs |-> obj.destination_email,
              msg |-> S_Subject \o subj \o <<"\n", "\n">> \o message]
      [] obj.kind = "Channel" ->
             [message |-> FormatSubject("Channel", subj).val \o message]
      [] obj.kind = "Teams" ->
             [message |-> FormatSubject("Teams", subj).val \o message]
      [] obj.kind = "Discord" ->
             [url |-> obj.webhook_url,
              data |-> JsonDumps(<<"c", "o", "n", "t", "e", "n", "t">>,
                                 FormatSubject("Discord", subj).val \o message),
              headers |-> obj.headers]

----------------------------------------------------------------------------
(* The decorator's message *)

S_AnErrorMessage == <<"A", "n", " ", "e", "r", "r", "o", "r", " ", "m", "e", "s", "s", "a", "g", "e">>
S_Frames == <<" ", " ", "F", "i", "l", "e", " ", ".", ".", ".", "\n">>

\* cls.__name__
TypeName(type) ==
    CASE type = "ValueError" -> <<"V", "a", "l", "u", "e", "E", "r", "r", "o", "r">>
      [] type = "KeyboardInterrupt" ->
             <<"K", "e", "y", "b", "o", "a", "r", "d", "I", "n", "t", "e", "r", "r", "u", "p", "t">>

\* str(cls) of a builtin exception class, as an f-string renders it
TypeRepr(type) == <<"<", "c", "l", "a", "s", "s", " ", "'">> \o TypeName(type) \o <<"'", ">">>

\* str(error) of an exception with at most one (string) argument
ErrorStr(error) == IF error.args = <<>> THEN <<>> ELSE error.args[1]

\* traceback.format_exc(): the header, the stack frames, and the final
\* "Type: message" line
FormatExc(error) ==
    S_Traceback \o S_Frames \o TypeName(error.type)
        \o (IF ErrorStr(error) = <<>> THEN <<>> ELSE <<":", " ">> \o ErrorStr(error))
        \o <<"\n">>

IntLevel(n) == [int |-> n]
StrLevel(s) == [str |-> s]

\* Mutant of LevelStr: verbose_level is compared with '1' and '2' as given,
\* and an integer equals neither.
LevelStr_NoStr(verbose_level) ==
    IF "int" \in DOMAIN verbose_level THEN <<>>
    ELSE verbose_level.str

\* str(verbose_level)
LevelStr(verbose_level) ==
    IF "int" \in DOMAIN verbose_level THEN IntStr(verbose_level.int)
    ELSE verbose_level.str

\* The message decorated(...) builds in its except block.
FailMessage(verbose_level, error) ==
    LET verbose == LevelStr(verbose_level) IN
    IF verbose = <<"1">> THEN S_Verbose1a \o TypeRepr(error.type) \o S_Verbose1b
    ELSE IF verbose = <<"2">> THEN S_Verbose2 \o ErrorStr(error)
    ELSE FormatExc(error)

----------------------------------------------------------------------------
(* Inputs *)

Libraries == {"requests", "notify_run", "pymsteams"}
Messages == {<<"m">>, <<"\"", "\\", "\n">>}
Subjects == {None, Some(<<>>), Some(<<"S">>)}
Handshakes == {"ok", "starttls", "login"}
\* what one transport call does: it returns, or raises an error of a class
TransportOutcomes ==
    {"ok", "HTTPError", "ConnectionError", "SMTPRecipientsRefused", "TeamsWebhookException"}
VerboseLevels ==
    {IntLevel(1), IntLevel(2), IntLevel(3),
     StrLevel(<<"1">>), StrLevel(<<"2">>), StrLevel(<<"3">>)}
WorkArgs == {<<>>, <<"x">>}
WorkValues == {None, Some("r")}
WorkErrors ==
    {Error("ValueError", <<S_AnErrorMessage>>, "work"),
     Error("ValueError", <<>>, "work"),
     Error("KeyboardInterrupt", <<>>, "work")}

----------------------------------------------------------------------------
(* The program *)

Init ==
    /\ libs \in SUBSET Libraries
    /\ objs = [i \in Instances |-> NoObj]
    /\ pc = "idle"
    /\ send = NoFrame
    /\ wrap = NoFrame
    /\ events = <<>>
    /\ result = NoResult
    /\ prev = NoPrev
    /\ smtp = [i \in Instances |-> "none"]
    /\ threads = <<>>

\* One constructor call, by class.
ConstructorOf(kind, i, on_error_sleep_time, handshake) ==
    CASE kind = "Slack" -> SlackInit(i, on_error_sleep_time)
      [] kind = "Email" -> EmailInit(i, on_error_sleep_time, handshake)
      [] kind = "Channel" -> ChannelInit(i, on_error_sleep_time)
      [] kind = "Teams" -> TeamsInit(i, on_error_sleep_time)
      [] kind = "Discord" -> DiscordInit(i, on_error_sleep_time)

\* The state of the SMTP handle passed to a constructor, once the
\* constructor has ended ("none": the class takes no handle).  starttls and
\* login change the handle only when they return.
HandleAfter(kind, built) ==
    IF kind # "Email" THEN "none"
    ELSE IF built.ok THEN "logged_in"
    ELSE IF Len(built.calls) = 2 THEN "tls"
    ELSE "plain"

\* The script constructs instance i.
Construct(i, kind, on_error_sleep_time, handshake) ==
    /\ pc = "idle"
    /\ objs[i] = NoObj
    /\ kind # "Email" => handshake = "ok"
    /\ LET built == ConstructorOf(kind, i, on_error_sleep_time, handshake) IN
       /\ objs' = IF built.ok THEN [objs EXCEPT ![i] = built.obj] ELSE objs
       /\ events' = built.calls
       /\ result' = [op |-> "construct", inst |-> i, kind |-> kind,
                     outcome |-> IF built.ok THEN "returned" ELSE "raised",
                     err |-> IF built.ok THEN None ELSE Some(built.err)]
       /\ smtp' = [smtp EXCEPT ![i] = HandleAfter(kind, built)]
    /\ prev' = NoPrev
    /\ UNCHANGED <<libs, pc, send, wrap, threads>>

\* Mutant of FirstStep: a payload equal to the stored one is not sent again.
FirstStep_Cached(obj, payload) ==
    IF obj.sending_payload = Some(payload) THEN "send_exit" ELSE "try1"

\* Where send_notification goes once the payload is stored: it calls
\* _send_notification, whatever the instance holds from earlier calls.
FirstStep(obj, payload) == "try1"

\* Mutant of StorePayload: a payload still held by the instance is kept, and
\* sent before anything newer.
StorePayload_Once(all, i, payload) ==
    IF all[i].sending_payload # None THEN all
    ELSE [all EXCEPT ![i].sending_payload = Some(payload)]

\* Mutant of StorePayload: _sending_payload is an attribute of the class,
\* shared by every instance.
StorePayload_Class(all, i, payload) ==
    [j \in DOMAIN all |->
        IF all[j] = NoObj THEN NoObj
        ELSE [all[j] EXCEPT !.sending_payload = Some(payload)]]

\* self._sending_payload = ...: the payload is stored in the instance.
StorePayload(all, i, payload) ==
    [all EXCEPT ![i].sending_payload = Some(payload)]

\* The body of send_notification up to its call of _send_notification: the
\* payload is stored in the instance and the frame stands at the first try.
EnterSend(i, message, subject, log) ==
    LET payload == SendingPayload(objs[i], message, subject) IN
    /\ objs' = StorePayload(objs, i, payload)
    /\ send' = [frame |-> "send_notification", inst |-> i,
                message |-> message, subject |-> subject, err |-> None]
    /\ events' = Append(log, [ev |-> "send_notification", inst |-> i,
                              message |-> message, subject |-> subject])
    /\ pc' = FirstStep(objs[i], payload)

\* The script calls objs[i].send_notification(message, subject).
SendNotification(i, message, subject) ==
    /\ pc = "idle"
    /\ objs[i] # NoObj
    /\ EnterSend(i, message, subject, <<>>)
    /\ result' = NoResult
    /\ UNCHANGED <<libs, wrap, prev, smtp, threads>>

\* Mutant of WrapperSend: the card is sent before its text is set.
WrapperSend_SendFirst(message, outcome) ==
    IF outcome = "ok"
    THEN <<[call |-> "send", outcome |-> outcome], [call |-> "text", text |-> message]>>
    ELSE <<[call |-> "send", outcome |-> outcome]>>

\* TeamsNotificator._wrapper_send: the calls it makes on the connector card;
\* `outcome` is what send() does.
WrapperSend(message, outcome) ==
    <<[call |-> "text", text |-> message], [call |-> "send", outcome |-> outcome]>>

\* self._sending_method(**self._sending_payload), as the collaborator sees it
TransportCall(obj, attempt, outcome) ==
    [ev |-> "transport", attempt |-> attempt,
     method |-> obj.sending_method.val,
     kwargs |-> obj.sending_payload.val,
     card |-> IF obj.sending_method.val = "_wrapper_send"
              THEN WrapperSend(obj.sending_payload.val.message, outcome)
              ELSE <<>>,
     outcome |-> outcome]

\* Mutant of Caught: `except Exception:` in place of the configured class.
Caught_Any(obj, outcome) == outcome # "ok"

\* The class `except self._raised_error_type` catches.
Caught(obj, outcome) ==
    /\ outcome # "ok"
    /\ IsInstance(Error(outcome, <<>>, "transport"), obj.raised_error_type)

\* Mutant of AfterTry: a caught error of the second try is retried like one of
\* the first (the try is in a loop).
AfterTry_Loop(obj, attempt, outcome) ==
    IF outcome = "ok" THEN [pc |-> "send_exit", err |-> None]
    ELSE IF IsInstance(Error(outcome, <<>>, "transport"), obj.raised_error_type)
    THEN [pc |-> "warn1", err |-> None]
    ELSE [pc |-> "send_exit", err |-> Some(Error(outcome, <<>>, "transport"))]

\* Mutant of AfterTry: the second except clause is a bare `except:`.
AfterTry_SwallowSecond(obj, attempt, outcome) ==
    IF outcome = "ok" THEN [pc |-> "send_exit", err |-> None]
    ELSE IF attempt = 2 THEN [pc |-> "warn2", err |-> None]
    ELSE IF IsInstance(Error(outcome, <<>>, "transport"), obj.raised_error_type)
    THEN [pc |-> "warn1", err |-> None]
    ELSE [pc |-> "send_exit", err |-> Some(Error(outcome, <<>>, "transport"))]

\* Mutant of AfterTry: the second try has no except clause.
AfterTry_RaiseSecond(obj, attempt, outcome) ==
    IF outcome = "ok" THEN [pc |-> "send_exit", err |-> None]
    ELSE IF IsInstance(Error(outcome, <<>>, "transport"), obj.raised_error_type)
            /\ attempt = 1
    THEN [pc |-> "warn1", err |-> None]
    ELSE [pc |-> "send_exit", err |-> Some(Error(outcome, <<>>, "transport"))]

\* Mutant of AfterTry: the first except block sleeps without warning.
AfterTry_NoWarning(obj, attempt, outcome) ==
    IF outcome = "ok" THEN [pc |-> "send_exit", err |-> None]
    ELSE IF IsInstance(Error(outcome, <<>>, "transport"), obj.raised_error_type)
    THEN [pc |-> IF attempt = 1 THEN "sleep" ELSE "warn2", err |-> None]
    ELSE [pc |-> "send_exit", err |-> Some(Error(outcome, <<>>, "transport"))]

\* Mutant of AfterTry: a caught first error is followed by the abort warning,
\* with no second try.
AfterTry_NoRetry(obj, attempt, outcome) ==
    IF outcome = "ok" THEN [pc |-> "send_exit", err |-> None]
    ELSE IF IsInstance(Error(outcome, <<>>, "transport"), obj.raised_error_type)
    THEN [pc |-> "warn2", err |-> None]
    ELSE [pc |-> "send_exit", err |-> Some(Error(outcome, <<>>, "transport"))]

\* One try of _send_notification: where control goes after the transport
\* call, and the error left pending when it is not caught.
AfterTry(obj, attempt, outcome) ==
    IF outcome = "ok" THEN [pc |-> "send_exit", err |-> None]
    ELSE IF Caught(obj, outcome)
    THEN [pc |-> IF attempt = 1 THEN "warn1" ELSE "warn2", err |-> None]
    ELSE [pc |-> "send_exit", err |-> Some(Error(outcome, <<>>, "transport"))]

Try(attempt, outcome) ==
    /\ pc = IF attempt = 1 THEN "try1" ELSE "try2"
    /\ LET obj == objs[send.inst]
           next == AfterTry(obj, attempt, outcome)
       IN
       /\ events' = Append(events, TransportCall(obj, attempt, outcome))
       /\ pc' = next.pc
       /\ send' = [send EXCEPT !.err = next.err]
    /\ UNCHANGED <<libs, objs, wrap, result, prev, smtp, threads>>

\* The first transport call (the try of line 56).
Try1(outcome) == Try(1, outcome)

\* warnings.warn of the first except block
RetryWarning(obj) ==
    [ev |-> "warn", category |-> "Warning",
     text |-> S_Retry1 \o IntStr(obj.on_error_sleep_time) \o S_Retry2]

Warn1 ==
    /\ pc = "warn1"
    /\ events' = Append(events, RetryWarning(objs[send.inst]))
    /\ pc' = "sleep"
    /\ UNCHANGED <<libs, objs, send, wrap, result, prev, smtp, threads>>

\* Mutant of Sleep: the wait is the default of two minutes, whatever the
\* instance was given.
Sleep_Fixed ==
    /\ pc = "sleep"
    /\ events' = Append(events, [ev |-> "sleep", secs |-> 120])
    /\ pc' = "try2"
    /\ UNCHANGED <<libs, objs, send, wrap, result, prev, smtp, threads>>

\* Mutant of Sleep: the wait is doubled for the next retry (a backoff).
Sleep_Backoff ==
    /\ pc = "sleep"
    /\ events' = Append(events, [ev |-> "sleep",
                                 secs |-> objs[send.inst].on_error_sleep_time])
    /\ objs' = [objs EXCEPT ![send.inst].on_error_sleep_time = 2 * @]
    /\ pc' = "try2"
    /\ UNCHANGED <<libs, send, wrap, result, prev, smtp, threads>>

\* sleep(self.on_error_sleep_time)
Sleep ==
    /\ pc = "sleep"
    /\ events' = Append(events, [ev |-> "sleep",
                                 secs |-> objs[send.inst].on_error_sleep_time])
    /\ pc' = "try2"
    /\ UNCHANGED <<libs, objs, send, wrap, result, prev, smtp, threads>>

\* The second transport call (the try of line 63).
Try2(outcome) == Try(2, outcome)

\* Mutant of Warn2: the second except block passes in silence.
Warn2_Silent ==
    /\ pc = "warn2"
    /\ pc' = "send_exit"
    /\ UNCHANGED <<libs, objs, send, wrap, result, prev, smtp, events, threads>>

\* warnings.warn of the second except block
Warn2 ==
    /\ pc = "warn2"
    /\ events' = Append(events, [ev |-> "warn", category |-> "Warning",
                                 text |-> S_Abort])
    /\ pc' = "send_exit"
    /\ UNCHANGED <<libs, objs, send, wrap, result, prev, smtp, threads>>

\* How a frame that holds a pending error (or none) ends.
Outcome(err) == IF err = None THEN "returned" ELSE "raised"

\* send_notification leaves, to the script.
SendReturn ==
    /\ pc = "send_exit"
    /\ wrap = NoFrame
    /\ result' = [op |-> "send_notification", inst |-> send.inst,
                  outcome |-> Outcome(send.err), value |-> None, err |-> send.err]
    /\ prev' = [call |-> "send_notification", inst |-> send.inst,
                message |-> send.message, subject |-> send.subject,
                transports |-> SelectSeq(events, LAMBDA e : e.ev = "transport")]
    /\ send' = NoFrame
    /\ pc' = "idle"
    /\ UNCHANGED <<libs, objs, wrap, events, smtp, threads>>

S_ErrorOfType == <<"A", "n", " ", "e", "r", "r", "o", "r", " ", "o", "f", " ", "t", "y", "p", "e", " ">>
S_ErrorMessageIs == <<" ", "o", "c", "c", "u", "r", "r", "e", "d", ".", " ", "A", "n", " ", "t", "h", "e", " ", "e", "r", "r", "o", "r", " ", "m", "e", "s", "s", "a", "g", "e", " ", "i", "s", " ">>
S_TupleIndex == <<"t", "u", "p", "l", "e", " ", "i", "n", "d", "e", "x", " ", "o", "u", "t", " ", "o", "f", " ", "r", "a", "n", "g", "e">>

\* Notificator._parse_error: the text, or the IndexError of error.args[0]
\* when the error was made with no argument.
ParseError(error) ==
    IF error.args = <<>>
    THEN [ok |-> FALSE, err |-> Error("IndexError", <<S_TupleIndex>>, "_parse_error")]
    ELSE [ok |-> TRUE,
          val |-> S_ErrorOfType \o TypeRepr(error.type) \o S_ErrorMessageIs
                      \o error.args[1]]

\* The script calls objs[i].send_notification_error(error).
SendNotificationError(i, error) ==
    /\ pc = "idle"
    /\ objs[i] # NoObj
    /\ LET parsed == ParseError(error)
           called == [ev |-> "send_notification_error", inst |-> i, error |-> error]
       IN IF parsed.ok
          THEN /\ EnterSend(i, parsed.val, None, <<called>>)
               /\ wrap' = [frame |-> "send_notification_error", notificator |-> i,
                           err |-> Some(error)]
               /\ result' = NoResult
          ELSE /\ events' = <<called>>
               /\ result' = [op |-> "send_notification_error", inst |-> i,
                             outcome |-> "raised", value |-> None,
                             err |-> Some(parsed.err)]
               /\ UNCHANGED <<objs, send, pc, wrap>>
    /\ prev' = NoPrev
    /\ UNCHANGED <<libs, smtp, threads>>

\* send_notification_error leaves once its send_notification has left.
ErrorResume ==
    /\ pc = "send_exit"
    /\ wrap.frame = "send_notification_error"
    /\ result' = [op |-> "send_notification_error", inst |-> wrap.notificator,
                  outcome |-> Outcome(send.err), value |-> None, err |-> send.err]
    /\ send' = NoFrame
    /\ wrap' = NoFrame
    /\ pc' = "idle"
    /\ UNCHANGED <<libs, objs, events, prev, smtp, threads>>

\* Mutant of DelCalls: __del__ leaves the connection open.
DelCalls_Nothing(obj) == <<>>

\* The collaborator calls made when an instance is disposed of: only
\* EmailNotificator has a __del__.
DelCalls(obj) ==
    IF obj.kind = "Email" THEN <<[ev |-> "smtp", call |-> "quit"]>> ELSE <<>>

\* The script drops its last reference to instance i.
Dispose(i) ==
    /\ pc = "idle"
    /\ objs[i] # NoObj
    /\ events' = DelCalls(objs[i])
    /\ smtp' = [smtp EXCEPT ![i] =
                   IF \E k \in DOMAIN events' : events'[k].call = "quit"
                   THEN "closed" ELSE @]
    /\ objs' = [objs EXCEPT ![i] = NoObj]
    /\ result' = [op |-> "dispose", inst |-> i, kind |-> objs[i].kind,
                  outcome |-> "returned", err |-> None]
    /\ prev' = NoPrev
    /\ UNCHANGED <<libs, pc, send, wrap, threads>>

\* The script calls notification_on_fail(objs[i], verbose_level)(func)(*args).
DecoratedCall(i, verbose_level, args) ==
    /\ pc = "idle"
    /\ objs[i] # NoObj
    /\ wrap' = [frame |-> "decorated", notificator |-> i,
                verbose_level |-> verbose_level, args |-> args, err |-> None]
    /\ events' = <<>>
    /\ result' = NoResult
    /\ pc' = "work"
    /\ prev' = NoPrev
    /\ UNCHANGED <<libs, objs, send, smtp, threads>>

\* The arguments decorated(*args, **kwargs) hands to func.
WorkCallArgs(frame) == frame.args

\* Mutant of ReturnOf: func is called without `return`.
ReturnOf_None(value) == None

\* `return func(*args, **kwargs)`: what decorated returns of func's result.
ReturnOf(value) == value

\* Mutant of DecoratedCatches: `except Exception:`.
DecoratedCatches_Exception(error) == IsInstance(error, "Exception")

\* The bare `except:` of decorated catches every error.
DecoratedCatches(error) == IsInstance(error, "BaseException")

\* `return func(*args, **kwargs)` when func returns.
WorkReturns(value) ==
    /\ pc = "work"
    /\ events' = Append(events, [ev |-> "work", args |-> WorkCallArgs(wrap),
                                 outcome |-> "returned", value |-> value])
    /\ result' = [op |-> "decorated", inst |-> wrap.notificator,
                  args |-> wrap.args,
                  outcome |-> "returned", value |-> ReturnOf(value), err |-> None]
    /\ wrap' = NoFrame
    /\ pc' = "idle"
    /\ UNCHANGED <<libs, objs, send, prev, smtp, threads>>

\* func raises: control enters the except block, or the error leaves
\* decorated when the clause does not catch it.
WorkRaises(error) ==
    /\ pc = "work"
    /\ events' = Append(events, [ev |-> "work", args |-> WorkCallArgs(wrap),
                                 outcome |-> "raised", err |-> error])
    /\ IF DecoratedCatches(error)
       THEN /\ wrap' = [wrap EXCEPT !.err = Some(error)]
            /\ pc' = "report"
            /\ UNCHANGED result
       ELSE /\ wrap' = NoFrame
            /\ pc' = "idle"
            /\ result' = [op |-> "decorated", inst |-> wrap.notificator,
                          args |-> wrap.args,
                          outcome |-> "raised", value |-> None, err |-> Some(error)]
    /\ UNCHANGED <<libs, objs, send, prev, smtp, threads>>

\* The except block: the message, then notificator.send_notification(message=...).
Report ==
    /\ pc = "report"
    /\ EnterSend(wrap.notificator,
                 FailMessage(wrap.verbose_level, wrap.err.val), None, events)
    /\ UNCHANGED <<libs, wrap, result, prev, smtp, threads>>

\* Mutant of AfterReport: an error of send_notification is dropped.
AfterReport_Swallow(frame, send_err) ==
    [outcome |-> "returned", value |-> None, err |-> None]

\* What decorated(...) does once send_notification has left: an error of
\* send_notification propagates; otherwise the function body ends and
\* returns None.
AfterReport(frame, send_err) ==
    IF send_err # None
    THEN [outcome |-> "raised", value |-> None, err |-> send_err]
    ELSE [outcome |-> "returned", value |-> None, err |-> None]

DecoratedResume ==
    /\ pc = "send_exit"
    /\ wrap.frame = "decorated"
    /\ LET r == AfterReport(wrap, send.err) IN
       result' = [op |-> "decorated", inst |-> wrap.notificator,
                  args |-> wrap.args,
                  outcome |-> r.outcome, value |-> r.value, err |-> r.err]
    /\ send' = NoFrame
    /\ wrap' = NoFrame
    /\ pc' = "idle"
    /\ UNCHANGED <<libs, objs, events, prev, smtp, threads>>

Next ==
    \/ \E i \in Instances, kind \in Kinds, t \in SleepTimes, h \in Handshakes :
           Construct(i, kind, t, h)
    \/ \E i \in Instances, m \in Messages, s \in Subjects : SendNotification(i, m, s)
    \/ \E o \in TransportOutcomes : Try1(o)
    \/ Warn1
    \/ Sleep
    \/ \E o \in TransportOutcomes : Try2(o)
    \/ Warn2
    \/ SendReturn
    \/ \E i \in Instances, v \in VerboseLevels, a \in WorkArgs : DecoratedCall(i, v, a)
    \/ \E v \in WorkValues : WorkReturns(v)
    \/ \E e \in WorkErrors : WorkRaises(e)
    \/ Report
    \/ DecoratedResume
    \/ \E i \in Instances : Dispose(i)
    \/ \E i \in Instances, e \in WorkErrors : SendNotificationError(i, e)
    \/ ErrorResume

Spec == Init /\ [][Next]_vars

\* A step of _send_notification.
SendStep ==
    \/ \E o \in TransportOutcomes : Try1(o)
    \/ Warn1
    \/ Sleep
    \/ \E o \in TransportOutcomes : Try2(o)
    \/ Warn2

\* The thread inside _send_notification keeps running: each transport call
\* and the sleep come back.
FairSpec == Spec /\ WF_vars(SendStep)

----------------------------------------------------------------------------
(* Two instances, each owned by its own thread *)

\* Two threads, each the creator and only user of the instance of its name;
\* their steps interleave freely.
Pair == {"n1", "n2"}
PairKinds == {"Slack", "Teams"}
PairMessages == {<<"m">>, <<"\"", "\\", "\n">>}
PairSubjects == {None, Some(<<"S">>)}
PairOutcomes == {"ok", "HTTPError", "TeamsWebhookException"}

\* A thread that is not inside send_notification.
Idle == [pc |-> "idle", send |-> NoFrame, events |-> <<>>]

\* Both instances are constructed, with every library installed.
InitTwo ==
    /\ libs = Libraries
    /\ \E kind \in [Pair -> PairKinds], t \in [Pair -> SleepTimes] :
           objs = [i \in Pair |-> ConstructorOf(kind[i], i, t[i], "ok").obj]
    /\ pc = "idle"
    /\ send = NoFrame
    /\ wrap = NoFrame
    /\ events = <<>>
    /\ result = NoResult
    /\ prev = NoPrev
    /\ smtp = [i \in Pair |-> "none"]
    /\ threads = [i \in Pair |-> Idle]

\* Thread i calls objs[i].send_notification(message, subject).
ThreadSend(i, message, subject) ==
    /\ threads[i].pc = "idle"
    /\ LET payload == SendingPayload(objs[i], message, subject) IN
       /\ objs' = StorePayload(objs, i, payload)
       /\ threads' = [threads EXCEPT ![i] =
              [pc |-> FirstStep(objs[i], payload),
               send |-> [frame |-> "send_notification", inst |-> i,
                         message |-> message, subject |-> subject, err |-> None],
               events |-> <<[ev |-> "send_notification", inst |-> i,
                             message |-> message, subject |-> subject]>>]]
    /\ UNCHANGED <<libs, pc, send, wrap, events, result, prev, smtp>>

\* One try of _send_notification in thread i.
ThreadTry(i, attempt, outcome) ==
    /\ threads[i].pc = IF attempt = 1 THEN "try1" ELSE "try2"
    /\ LET obj == objs[i]
           next == AfterTry(obj, attempt, outcome)
       IN threads' = [threads EXCEPT
              ![i].events = Append(@, TransportCall(obj, attempt, outcome)),
              ![i].pc = next.pc,
              ![i].send.err = next.err]
    /\ UNCHANGED <<libs, objs, pc, send, wrap, events, result, prev, smtp>>

ThreadTry1(i, outcome) == ThreadTry(i, 1, outcome)

ThreadWarn1(i) ==
    /\ threads[i].pc = "warn1"
    /\ threads' = [threads EXCEPT ![i].events = Append(@, RetryWarning(objs[i])),
                                  ![i].pc = "sleep"]
    /\ UNCHANGED <<libs, objs, pc, send, wrap, events, result, prev, smtp>>

ThreadSleep(i) ==
    /\ threads[i].pc = "sleep"
    /\ threads' = [threads EXCEPT
           ![i].events = Append(@, [ev |-> "sleep",
                                    secs |-> objs[i].on_error_sleep_time]),
           ![i].pc = "try2"]
    /\ UNCHANGED <<libs, objs, pc, send, wrap, events, result, prev, smtp>>

ThreadTry2(i, outcome) == ThreadTry(i, 2, outcome)

ThreadWarn2(i) ==
    /\ threads[i].pc = "warn2"
    /\ threads' = [threads EXCEPT
           ![i].events = Append(@, [ev |-> "warn", category |-> "Warning",
                                    text |-> S_Abort]),
           ![i].pc = "send_exit"]
    /\ UNCHANGED <<libs, objs, pc, send, wrap, events, result, prev, smtp>>

\* send_notification leaves, to thread i.
ThreadReturn(i) ==
    /\ threads[i].pc = "send_exit"
    /\ threads' = [threads EXCEPT ![i] = Idle]
    /\ UNCHANGED <<libs, objs, pc, send, wrap, events, result, prev, smtp>>

NextTwo ==
    \/ \E i \in Pair, m \in PairMessages, s \in PairSubjects : ThreadSend(i, m, s)
    \/ \E i \in Pair, o \in PairOutcomes : ThreadTry1(i, o)
    \/ \E i \in Pair : ThreadWarn1(i)
    \/ \E i \in Pair : ThreadSleep(i)
    \/ \E i \in Pair, o \in PairOutcomes : ThreadTry2(i, o)
    \/ \E i \in Pair : ThreadWarn2(i)
    \/ \E i \in Pair : ThreadReturn(i)

SpecTwo == InitTwo /\ [][NextTwo]_vars

----------------------------------------------------------------------------
(* The legacy email notificator *)

LegacySubjects == {<<>>, <<"S">>, <<"S", "\n">>}
LegacyTexts == {<<"m">>, <<"\"", "\\", "\n">>}
\* what one call on the SMTP handle does: it returns, or raises
LegacyOutcomes == {"ok", "SMTPException", "SMTPRecipientsRefused"}

\* EmailNotificator.__init__ of the legacy module: the fields are stored, the
\* handle is not used.
LegacyEmailInit(i) ==
    [kind |-> "LegacyEmail",
     sender_email |-> SenderEmail(i),
     sender_login_credential |-> [credential_of |-> i],
     destination_email |-> DestinationEmail(i),
     smtp_server |-> [handle_of |-> i]]

InitLegacy ==
    /\ libs = Libraries
    /\ objs = [i \in Instances |-> LegacyEmailInit(i)]
    /\ pc = "idle"
    /\ send = NoFrame
    /\ wrap = NoFrame
    /\ events = <<>>
    /\ result = NoResult
    /\ prev = NoPrev
    /\ smtp = [i \in Instances |-> "plain"]
    /\ threads = <<>>

\* The script calls objs[i].send_notification(subject, text).
LegacySend(i, subject, text) ==
    /\ pc = "idle"
    /\ objs[i].kind = "LegacyEmail"
    /\ send' = [frame |-> "legacy_send_notification", inst |-> i,
                subject |-> subject, text |-> text, err |-> None]
    /\ events' = <<>>
    /\ result' = NoResult
    /\ pc' = "ehlo"
    /\ UNCHANGED <<libs, objs, wrap, prev, smtp, threads>>

\* Mutant of LegacyAfter: the handle is closed when a step fails (a finally).
LegacyAfter_Finally(step, following, outcome) ==
    IF outcome = "ok" THEN [pc |-> following, err |-> None]
    ELSE IF step # "close"
    THEN [pc |-> "close", err |-> Some(Error(outcome, <<>>, step))]
    ELSE [pc |-> "legacy_exit", err |-> Some(Error(outcome, <<>>, step))]

\* Where send_notification goes after a call on the handle: to the next
\* statement, or out with the error the call raised.
LegacyAfter(step, following, outcome) ==
    IF outcome = "ok" THEN [pc |-> following, err |-> None]
    ELSE [pc |-> "legacy_exit", err |-> Some(Error(outcome, <<>>, step))]

\* One statement of send_notification: a call on self.smtp_server.
LegacyCall(step, args, following, handle, outcome) ==
    /\ pc = step
    /\ LET next == LegacyAfter(step, following, outcome) IN
       /\ events' = Append(events, [ev |-> "smtp", call |-> step, args |-> args,
                                    outcome |-> outcome])
       /\ pc' = next.pc
       /\ send' = [send EXCEPT !.err = next.err]
       /\ smtp' = IF outcome = "ok" THEN [smtp EXCEPT ![send.inst] = handle]
                  ELSE smtp
    /\ UNCHANGED <<libs, objs, wrap, result, prev, threads>>

LegacyEhlo(outcome) ==
    LegacyCall("ehlo", <<>>, "starttls", smtp[send.inst], outcome)

LegacyStarttls(outcome) ==
    LegacyCall("starttls", <<>>, "login", "tls", outcome)

LegacyLogin(outcome) ==
    LegacyCall("login",
               <<objs[send.inst].sender_email, objs[send.inst].sender_login_credential>>,
               "sendmail", "logged_in", outcome)

\* 'Subject: %s\n\n%s' % (subject, text)
LegacyContent(subject, text) == S_Subject \o subject \o <<"\n", "\n">> \o text

LegacySendmail(outcome) ==
    LegacyCall("sendmail",
               <<objs[send.inst].sender_email, objs[send.inst].destination_email,
                 LegacyContent(send.subject, send.text)>>,
               "close", smtp[send.inst], outcome)

LegacyClose(outcome) ==
    LegacyCall("close", <<>>, "legacy_exit", "closed", outcome)

\* send_notification leaves, to the script.
LegacyReturn ==
    /\ pc = "legacy_exit"
    /\ result' = [op |-> "legacy_send_notification", inst |-> send.inst,
                  outcome |-> Outcome(send.err), value |-> None, err |-> send.err]
    /\ send' = NoFrame
    /\ pc' = "idle"
    /\ UNCHANGED <<libs, objs, wrap, events, prev, smtp, threads>>

NextLegacy ==
    \/ \E i \in Instances, s \in LegacySubjects, t \in LegacyTexts : LegacySend(i, s, t)
    \/ \E o \in LegacyOutcomes : LegacyEhlo(o)
    \/ \E o \in LegacyOutcomes : LegacyStarttls(o)
    \/ \E o \in LegacyOutcomes : LegacyLogin(o)
    \/ \E o \in LegacyOutcomes : LegacySendmail(o)
    \/ \E o \in LegacyOutcomes : LegacyClose(o)
    \/ LegacyReturn

SpecLegacy == InitLegacy /\ [][NextLegacy]_vars

----------------------------------------------------------------------------
(* What a finished call left behind *)

Transports == SelectSeq(events, LAMBDA e : e.ev = "transport")
Warnings == SelectSeq(events, LAMBDA e : e.ev = "warn")
Sleeps == SelectSeq(events, LAMBDA e : e.ev = "sleep")
SendCalls == SelectSeq(events, LAMBDA e : e.ev = "send_notification")
WorkCalls == SelectSeq(events, LAMBDA e : e.ev = "work")

\* The transient-error kind of each channel, as the documentation gives it.
TransientKind(kind) ==
    CASE kind = "Email" -> "SMTPRecipientsRefused"
      [] kind = "Teams" -> "TeamsWebhookException"
      [] OTHER -> "HTTPError"

\* send_notification has run to its end (it is about to return or raise).
SendOver == pc = "send_exit"
SendKind == objs[send.inst].kind
SendTransient == TransientKind(SendKind)

\* The script has got control back from a send_notification it called.
SendReturned == pc = "idle" /\ result.op = "send_notification"
\* The script has got control back from a decorated function it called.
DecoratedOver == pc = "idle" /\ result.op = "decorated"

----------------------------------------------------------------------------
(* Retry protocol *)

\* C1: for every channel, when every transport call of one send_notification
\* raises the channel's transient-error kind, exactly two transport calls are
\* made, exactly two warnings are emitted, and send_notification returns
\* normally.
C1_RetryExhaustion ==
    (/\ SendOver
     /\ \A k \in DOMAIN Transports : Transports[k].outcome = SendTransient)
    => /\ Len(Transports) = 2
       /\ Len(Warnings) = 2
       /\ send.err = None

C1_Witness ==
    /\ SendOver
    /\ SendKind = "Email"
    /\ Len(Transports) = 2
    /\ \A k \in DOMAIN Transports : Transports[k].outcome = "SMTPRecipientsRefused"

\* C2: when the first transport call raises the transient-error kind and the
\* second succeeds, exactly two transport calls are made, exactly one warning
\* is emitted, and send_notification returns normally.
C2_RetryThenSuccess ==
    (/\ SendOver
     /\ Transports[1].outcome = SendTransient
     /\ Len(Transports) >= 2 => Transports[2].outcome = "ok")
    => /\ Len(Transports) = 2
       /\ Len(Warnings) = 1
       /\ send.err = None

C2_Witness ==
    /\ SendOver
    /\ SendKind = "Teams"
    /\ Len(Transports) = 2
    /\ Transports[1].outcome = "TeamsWebhookException"
    /\ Transports[2].outcome = "ok"

\* C6: when the first transport call raises an error that is not the
\* channel's transient-error kind, that error reaches the caller of
\* send_notification after exactly one transport call, with no warning, no
\* sleep and no retry.
C6_UnclassifiedPropagates ==
    /\ (/\ SendOver
        /\ Transports[1].outcome \notin {"ok", SendTransient})
       => /\ Len(Transports) = 1
          /\ Warnings = <<>>
          /\ Sleeps = <<>>
          /\ send.err = Some(Error(Transports[1].outcome, <<>>, "transport"))
    /\ (/\ SendReturned
        /\ Transports[1].outcome \notin {"ok", TransientKind(objs[result.inst].kind)})
       => /\ result.outcome = "raised"
          /\ result.err = Some(Error(Transports[1].outcome, <<>>, "transport"))

C6_Witness ==
    /\ SendReturned
    /\ objs[result.inst].kind = "Email"
    /\ Transports[1].outcome = "HTTPError"
    /\ result.outcome = "raised"

\* C7 as claimed: whatever the transport attempts do, send_notification
\* returns normally.
C7_NeverRaises == SendOver => send.err = None

\* C7 as amended: whenever every transport attempt either succeeds or raises
\* the channel's transient-error kind, send_notification returns normally and
\* each failed attempt is reported by one warning.
C7_NeverRaisesOnTransient ==
    (/\ SendOver
     /\ \A k \in DOMAIN Transports : Transports[k].outcome \in {"ok", SendTransient})
    => /\ send.err = None
       /\ Len(Warnings) =
              Cardinality({k \in DOMAIN Transports : Transports[k].outcome # "ok"})

C7_Witness ==
    /\ SendOver
    /\ SendKind = "Slack"
    /\ Len(Transports) = 2
    /\ Transports[1].outcome = "HTTPError"
    /\ Transports[2].outcome = "HTTPError"
    /\ send.err = None

----------------------------------------------------------------------------
(* The decorator *)

\* The one call of func a decorated call made.
Work == WorkCalls[1]
WorkRaised == Len(WorkCalls) >= 1 /\ Work.outcome = "raised"
WorkReturned == Len(WorkCalls) >= 1 /\ Work.outcome = "returned"

\* The last event of a send_notification that ran to its end: a transport
\* call that returned or raised an error nobody caught, or the abort warning.
Last == events[Len(events)]
SendCompleted ==
    \/ Last.ev = "transport" /\ Last.outcome = "ok"
    \/ Last.ev = "transport" /\ result.err = Some(Error(Last.outcome, <<>>, "transport"))
    \/ Last.ev = "warn" /\ Last.text = S_Abort

\* C3: when the work function raises E, the decorated function raises
\* exactly E to its caller; it never returns normally in that case.
C3_WrapperReraises ==
    (DecoratedOver /\ WorkRaised)
    => /\ result.outcome = "raised"
       /\ result.err = Some(Work.err)

\* C4: when the work function raises an error of any kind, whatever the
\* verbosity, the decorated call has invoked it exactly once, then called
\* send_notification exactly once, and that call has run to its end when
\* control leaves the decorated function.
C4_WrapperReports ==
    (DecoratedOver /\ WorkRaised)
    => /\ Len(WorkCalls) = 1
       /\ events[1].ev = "work"
       /\ Len(SendCalls) = 1
       /\ events[2].ev = "send_notification"
       /\ SendCalls[1].inst = result.inst
       /\ send = NoFrame
       /\ SendCompleted

C4_Witness ==
    /\ DecoratedOver
    /\ WorkRaised
    /\ Work.err.type = "KeyboardInterrupt"
    /\ Len(SendCalls) = 1
    /\ Len(Transports) = 2

\* C5: when the work function returns, the decorated call has invoked it
\* exactly once with the caller's arguments, returns its result unchanged and
\* makes no call to send_notification.
C5_WrapperTransparent ==
    (DecoratedOver /\ WorkReturned)
    => /\ Len(WorkCalls) = 1
       /\ Work.args = result.args
       /\ result.outcome = "returned"
       /\ result.value = Work.value
       /\ SendCalls = <<>>
       /\ Transports = <<>>

C5_Witness ==
    /\ DecoratedOver
    /\ WorkReturned
    /\ Work.args = <<"x">>
    /\ result.value = Some("r")

----------------------------------------------------------------------------
(* Message content *)

\* Reading back a JSON string body s.  A character is escaped when an odd
\* number of backslashes stands right before it.
BackslashesBefore(s, k) ==
    Cardinality({j \in 1..(k - 1) : \A l \in j..(k - 1) : s[l] = "\\"})
Escaped(s, k) == BackslashesBefore(s, k) % 2 = 1

\* [ok, val]: val is the string the body stands for; ok is FALSE when the
\* text is no JSON string body (a bare quote or line break, an unknown or
\* unfinished escape).
JsonUnescape(s) ==
    LET n == Len(s)
        kept == SelectSeq([k \in 1..n |-> k],
                          LAMBDA k : Escaped(s, k) \/ s[k] # "\\")
        ok == /\ \A k \in 1..n :
                     IF Escaped(s, k) THEN s[k] \in {"\\", "\"", "n"}
                     ELSE s[k] \notin {"\"", "\n"}
              /\ n > 0 => (Escaped(s, n) \/ s[n] # "\\")
    IN [ok |-> ok,
        val |-> [j \in 1..Len(kept) |->
                    IF Escaped(s, kept[j]) /\ s[kept[j]] = "n" THEN "\n"
                    ELSE s[kept[j]]]]

\* The string under `key` of the JSON document {"key": "..."}, or None when
\* the text is no such document.
JsonStringField(data, key) ==
    LET prefix == <<"{", "\"">> \o key \o <<"\"", ":", " ", "\"">>
        n == Len(data)
        p == Len(prefix)
    IN IF n < p + 2 \/ SubSeq(data, 1, p) # prefix
          \/ SubSeq(data, n - 1, n) # <<"\"", "}">>
       THEN None
       ELSE LET body == JsonUnescape(SubSeq(data, p + 1, n - 2))
            IN IF body.ok THEN Some(body.val) ELSE None

Decorating == {"Slack", "Channel", "Teams", "Discord"}

\* The message a transport call was handed, by channel.
Handed(kind, kwargs) ==
    CASE kind = "Slack" -> JsonStringField(kwargs.data, <<"t", "e", "x", "t">>)
      [] kind = "Discord" ->
             JsonStringField(kwargs.data, <<"c", "o", "n", "t", "e", "n", "t">>)
      [] OTHER -> Some(kwargs.message)

\* The documented default subject and emphasis marker of each channel.
DefaultSubject(kind) ==
    CASE kind = "Slack" -> S_SlackDefault
      [] kind = "Email" -> S_EmailDefault
      [] kind = "Channel" -> S_ChannelDefault
      [] kind = "Teams" -> S_TeamsDefault
      [] kind = "Discord" -> S_DiscordDefault
Marker(kind) == IF kind = "Slack" THEN <<"*">> ELSE <<"*", "*">>

\* The send_notification call of the current top-level call.
Call == SendCalls[1]
CallKind == objs[Call.inst].kind

\* C8: on the Slack, Channel, Teams and Discord channels, send_notification
\* with no subject hands every transport call the channel's default subject
\* between its emphasis markers, a line break, and then the message.
C8_DefaultSubject ==
    \A k \in DOMAIN Transports :
        (Call.subject = None /\ CallKind \in Decorating)
        => Handed(CallKind, Transports[k].kwargs) =
               Some(Marker(CallKind) \o DefaultSubject(CallKind) \o Marker(CallKind)
                    \o <<"\n">> \o Call.message)

C8_Witness ==
    /\ Len(Transports) = 2
    /\ Call.subject = None
    /\ CallKind = "Discord"
    /\ Call.message = <<"\"", "\\", "\n">>

\* C9: on the Slack, Channel, Teams and Discord channels, send_notification
\* with subject S hands every transport call S between the emphasis markers,
\* a line break, and then the message unchanged.
C9_ExplicitSubject ==
    \A k \in DOMAIN Transports :
        (Call.subject # None /\ CallKind \in Decorating)
        => Handed(CallKind, Transports[k].kwargs) =
               Some(Marker(CallKind) \o Call.subject.val \o Marker(CallKind)
                    \o <<"\n">> \o Call.message)

C9_Witness ==
    /\ Len(Transports) = 1
    /\ Call.subject = Some(<<"S">>)
    /\ CallKind = "Slack"
    /\ Call.message = <<"\"", "\\", "\n">>

\* C10: on the email channel every transport call is sendmail with
\* from_addr the sender, to_addrs the destination and msg exactly
\* "Subject: " + S + "\n\n" + message, S being the subject as given, or
\* "Python script notification email" when none is given.
C10_EmailContent ==
    \A k \in DOMAIN Transports :
        CallKind = "Email"
        => LET S == IF Call.subject = None THEN S_EmailDefault ELSE Call.subject.val
           IN /\ Transports[k].method = "smtp_server.sendmail"
              /\ Transports[k].kwargs =
                     [from_addr |-> SenderEmail(Call.inst),
                      to_addrs |-> DestinationEmail(Call.inst),
                      msg |-> S_Subject \o S \o <<"\n", "\n">> \o Call.message]

C10_Witness ==
    /\ Len(Transports) >= 1
    /\ CallKind = "Email"
    /\ Call.subject = Some(<<>>)
    /\ Transports[1].kwargs.msg = S_Subject \o <<"\n", "\n", "m">>

----------------------------------------------------------------------------
(* Consecutive calls *)

AllOk(transports) == \A k \in DOMAIN transports : transports[k].outcome = "ok"

\* The running send_notification repeats the call the script made just
\* before: same instance, same arguments.
RepeatsPrevious ==
    /\ wrap = NoFrame
    /\ prev.call = "send_notification"
    /\ prev.inst = send.inst
    /\ prev.message = send.message
    /\ prev.subject = send.subject

\* C11: two send_notification calls in a row on one instance with the same
\* arguments, whose transport calls succeed, make exactly two transport
\* calls, with identical payloads: the second is not suppressed.
C11_NoCaching ==
    (/\ SendOver
     /\ RepeatsPrevious
     /\ AllOk(prev.transports)
     /\ AllOk(Transports))
    => /\ Len(prev.transports) + Len(Transports) = 2
       /\ Len(Transports) = 1
       /\ Transports[1].kwargs = prev.transports[1].kwargs
       /\ Transports[1].method = prev.transports[1].method

C11_Witness ==
    /\ SendOver
    /\ RepeatsPrevious
    /\ SendKind = "Discord"
    /\ AllOk(prev.transports)
    /\ Len(Transports) = 1
    /\ AllOk(Transports)

----------------------------------------------------------------------------
(* Construction and disposal *)

Constructed == pc = "idle" /\ result.op = "construct"
Disposed == pc = "idle" /\ result.op = "dispose"

\* The client library each class needs.
LibraryOf(kind) ==
    CASE kind \in {"Slack", "Discord"} -> "requests"
      [] kind = "Channel" -> "notify_run"
      [] kind = "Teams" -> "pymsteams"

\* C12: for each channel whose client library is unavailable (requests for
\* Slack and Discord, notify_run for Channel, pymsteams for Teams) the
\* constructor raises ImportError, and no instance comes to exist.
C12_FailFastImportError ==
    (/\ Constructed
     /\ result.kind \in {"Slack", "Discord", "Channel", "Teams"}
     /\ LibraryOf(result.kind) \notin libs)
    => /\ result.outcome = "raised"
       /\ result.err.val.type = "ImportError"
       /\ objs[result.inst] = NoObj

\* C13: on the SMTP handle of an EmailNotificator, construction calls
\* starttls once and then login once; every sendmail is made on the handle
\* logged in by them and not yet closed; no send_notification makes a call of
\* the handshake; disposal calls quit, and an instance whose handle is closed
\* no longer exists to send.
C13_EmailLifecycle ==
    /\ (Constructed /\ result.kind = "Email" /\ result.outcome = "returned")
       => /\ events = <<[ev |-> "smtp", call |-> "starttls"],
                        [ev |-> "smtp", call |-> "login",
                         user |-> SenderEmail(result.inst)]>>
          /\ smtp[result.inst] = "logged_in"
    /\ \A k \in DOMAIN Transports :
           CallKind = "Email"
           => /\ Transports[k].method = "smtp_server.sendmail"
              /\ smtp[Call.inst] = "logged_in"
    /\ SendCalls # <<>> => \A k \in DOMAIN events : events[k].ev # "smtp"
    /\ (Disposed /\ result.kind = "Email")
       => /\ events = <<[ev |-> "smtp", call |-> "quit"]>>
          /\ smtp[result.inst] = "closed"
    /\ \A i \in DOMAIN smtp : smtp[i] = "closed" => objs[i] = NoObj

C13_Witness ==
    /\ Disposed
    /\ result.kind = "Email"
    /\ smtp[result.inst] = "closed"
    /\ objs[result.inst] = NoObj

----------------------------------------------------------------------------
(* send_notification_error *)

ErrorReported == pc = "idle" /\ result.op = "send_notification_error"

\* C14: for every error, one made with no argument included,
\* send_notification_error makes exactly one call of send_notification, with
\* no subject and the message "An error of type {kind} occurred. An the
\* error message is {message}".
C14_SendNotificationError ==
    ErrorReported
    => /\ Len(SendCalls) = 1
       /\ SendCalls[1].subject = None
       /\ SendCalls[1].message =
              S_ErrorOfType \o TypeRepr(events[1].error.type) \o S_ErrorMessageIs
                  \o ErrorStr(events[1].error)

----------------------------------------------------------------------------
(* Verbosity tiers *)

\* The tier a verbose_level selects, as documented: 1, 2, or 3.
Tier(verbose_level) ==
    CASE verbose_level \in {IntLevel(1), StrLevel(<<"1">>)} -> 1
      [] verbose_level \in {IntLevel(2), StrLevel(<<"2">>)} -> 2
      [] verbose_level \in {IntLevel(3), StrLevel(<<"3">>)} -> 3

\* The wrapper has called send_notification in the decorated call under way.
Reporting == wrap.frame = "decorated" /\ SendCalls # <<>>

\* C15: when the wrapped work raises, the message passed to send_notification
\* is fixed by verbose_level and the error: tier 1 names the error's type,
\* tier 2 gives the error's message, tier 3 is the traceback text; an integer
\* level and its string form select the same tier; the call passes no subject.
C15_VerbosityTiers ==
    Reporting
    => /\ Len(SendCalls) = 1
       /\ WorkRaised
       /\ SendCalls[1].subject = None
       /\ LET error == wrap.err.val
              tier == Tier(wrap.verbose_level)
          IN /\ Work.err = error
             /\ tier = 1 => SendCalls[1].message =
                    S_Verbose1a \o TypeRepr(error.type) \o S_Verbose1b
             /\ tier = 2 => SendCalls[1].message = S_Verbose2 \o ErrorStr(error)
             /\ tier = 3 => SendCalls[1].message = FormatExc(error)

C15_Witness ==
    /\ Reporting
    /\ pc = "send_exit"
    /\ wrap.verbose_level = IntLevel(2)
    /\ wrap.err.val.args # <<>>
    /\ SendCalls[1].message = S_Verbose2 \o S_AnErrorMessage

----------------------------------------------------------------------------
(* The wrapper over a notificator that retries *)

\* What happened in the call, in order.
EventKinds == [k \in DOMAIN events |-> events[k].ev]

\* The wrapped work raised and every transport call of the report raised the
\* channel's transient-error kind.
ReportExhausted ==
    /\ DecoratedOver
    /\ WorkRaised
    /\ Transports # <<>>
    /\ \A k \in DOMAIN Transports :
           Transports[k].outcome = TransientKind(objs[result.inst].kind)

\* C16: when the transport always raises the transient-error kind and the
\* wrapped work raises E, one wrapped call produces, in order, the work
\* failure, a transport call, a warning, a sleep, a second transport call and
\* a second warning, and then raises E to the caller.
C16_WrapperOverRetry ==
    ReportExhausted
    => /\ EventKinds = <<"work", "send_notification", "transport", "warn",
                         "sleep", "transport", "warn">>
       /\ result.outcome = "raised"
       /\ result.err = Some(Work.err)

----------------------------------------------------------------------------
(* Retry policy *)

\* The retry policy of an instance.
Policy(obj) ==
    <<obj.on_error_sleep_time, obj.raised_error_type, obj.sending_method>>

\* C17: once an instance is constructed, no step of a send_notification, a
\* send_notification_error or a decorated call changes its
\* on_error_sleep_time, its transient-error kind or its sending method.
C17_PolicyImmutable ==
    [][\A i \in Instances :
           (objs[i] # NoObj /\ objs'[i] # NoObj) => Policy(objs'[i]) = Policy(objs[i])]_vars

C17_Witness ==
    /\ ErrorReported
    /\ result.outcome = "returned"
    /\ Len(Transports) = 2
    /\ Len(Sleeps) = 1
    /\ Policy(objs[result.inst]) = <<1, "TeamsWebhookException", Some("_wrapper_send")>>

----------------------------------------------------------------------------
(* Retry ordering and the two-attempt bound *)

\* part occurs in text
Contains(text, part) ==
    \E k \in 1..(Len(text) - Len(part) + 1) :
        SubSeq(text, k, k + Len(part) - 1) = part

\* Where the send_notification under way starts in the call's events, and
\* what it has done since.
SendAt == CHOOSE k \in DOMAIN events : events[k].ev = "send_notification"
SendSteps == SubSeq(events, SendAt + 1, Len(events))

\* The transport calls that raised the channel's transient-error kind.
TransientFailures ==
    {k \in DOMAIN Transports : Transports[k].outcome = SendTransient}

\* C19: within one send_notification, a sleep happens if and only if the
\* first transport call raised the transient-error kind; then the order is
\* first transport call, first warning (its text contains the configured
\* on_error_sleep_time), one sleep of exactly on_error_sleep_time, second
\* transport call; nothing but the second warning follows a failed second
\* attempt.
C19_RetryOrdering ==
    SendOver
    => LET time == objs[send.inst].on_error_sleep_time IN
       /\ Sleeps # <<>> <=> Transports[1].outcome = SendTransient
       /\ Len(Sleeps) <= 1
       /\ SendSteps[1].ev = "transport" /\ SendSteps[1].attempt = 1
       /\ Sleeps # <<>>
          => /\ Len(SendSteps) \in {4, 5}
             /\ SendSteps[2].ev = "warn"
             /\ Contains(SendSteps[2].text, IntStr(time))
             /\ SendSteps[3] = [ev |-> "sleep", secs |-> time]
             /\ SendSteps[4].ev = "transport" /\ SendSteps[4].attempt = 2
             /\ Len(SendSteps) = 5
                => /\ SendSteps[4].outcome = SendTransient
                   /\ SendSteps[5].ev = "warn"
       /\ Sleeps = <<>> => Len(SendSteps) = 1

C19_Witness ==
    /\ SendOver
    /\ objs[send.inst].on_error_sleep_time = 1
    /\ Sleeps = <<[ev |-> "sleep", secs |-> 1]>>
    /\ Len(SendSteps) = 5
    /\ SendSteps[4].outcome = SendTransient

\* C20: in every send_notification the number of transport calls is 1 or 2,
\* a second one is made only if the first raised the transient-error kind,
\* and as many warnings are emitted as transport calls raised that kind.
C20_TwoAttemptBound ==
    SendOver
    => /\ Len(Transports) \in {1, 2}
       /\ Len(Transports) = 2 => Transports[1].outcome = SendTransient
       /\ Len(Warnings) = Cardinality(TransientFailures)

C20_Witness ==
    /\ SendOver
    /\ Len(Transports) = 2
    /\ Len(Warnings) = 2
    /\ SendKind = "Discord"
    /\ TransientFailures = {1, 2}

----------------------------------------------------------------------------
(* Instance isolation *)

IsPrefix(s, t) == Len(s) <= Len(t) /\ SubSeq(t, 1, Len(s)) = s

\* What one send_notification(message, subject) of instance i does from its
\* call to its end when no other instance exists, the transport calls ending
\* as o1 and (if there is a second) o2.
AloneRun(i, message, subject, o1, o2) ==
    LET obj == [objs[i] EXCEPT
                   !.sending_payload = Some(SendingPayload(objs[i], message, subject))]
        first == <<[ev |-> "send_notification", inst |-> i,
                    message |-> message, subject |-> subject],
                   TransportCall(obj, 1, o1)>>
        second == first \o <<RetryWarning(obj),
                             [ev |-> "sleep", secs |-> obj.on_error_sleep_time],
                             TransportCall(obj, 2, o2)>>
    IN IF AfterTry(obj, 1, o1).pc # "warn1" THEN first
       ELSE IF AfterTry(obj, 2, o2).pc # "warn2" THEN second
       ELSE Append(second, [ev |-> "warn", category |-> "Warning", text |-> S_Abort])

\* Thread i is inside send_notification.
Sending(i) == threads[i].pc # "idle"

\* Instance i holds the payload of its own call, and what its collaborators
\* have seen so far is the beginning of a run of that call alone.
AsIfAlone(i) ==
    LET frame == threads[i].send IN
    /\ objs[i].sending_payload =
           Some(SendingPayload(objs[i], frame.message, frame.subject))
    /\ \E o1 \in PairOutcomes, o2 \in PairOutcomes :
           IsPrefix(threads[i].events,
                    AloneRun(i, frame.message, frame.subject, o1, o2))

\* A step of thread i leaves the other instance and its thread as they were.
OthersUntouched ==
    \A i \in Pair, j \in Pair :
        (i # j /\ threads'[i] # threads[i])
        => objs'[j] = objs[j] /\ threads'[j] = threads[j]

\* C18: for two distinct instances, however the steps of a send_notification
\* on one and of a send_notification on the other interleave, each instance's
\* transport calls, payloads, warnings and retry state are those of a run of
\* that instance alone, and a step on one instance neither reads nor writes
\* the pending payload of the other.
C18_InstanceIsolation ==
    /\ [](\A i \in Pair : Sending(i) => AsIfAlone(i))
    /\ [][OthersUntouched]_vars

C18_Witness ==
    /\ threads["n1"].pc = "try2"
    /\ threads["n2"].pc = "try1"
    /\ objs["n1"].sending_payload # objs["n2"].sending_payload
    /\ objs["n1"].kind = objs["n2"].kind
    /\ AsIfAlone("n1")
    /\ AsIfAlone("n2")

----------------------------------------------------------------------------
(* Errors of other kinds *)

\* C21: if the first transport call raises the transient-error kind and the
\* second raises an error of any other kind, that second error propagates to
\* the caller of send_notification after exactly one warning and one sleep;
\* no second warning is emitted.
C21_OtherErrorOnRetry ==
    (/\ SendOver
     /\ Len(Transports) = 2
     /\ Transports[1].outcome = SendTransient
     /\ Transports[2].outcome \notin {"ok", SendTransient})
    => /\ send.err = Some(Error(Transports[2].outcome, <<>>, "transport"))
       /\ Len(Warnings) = 1
       /\ Warnings[1].text # S_Abort
       /\ Len(Sleeps) = 1

C21_Witness ==
    /\ SendOver
    /\ SendKind = "Slack"
    /\ Len(Transports) = 2
    /\ Transports[1].outcome = "HTTPError"
    /\ Transports[2].outcome = "ConnectionError"
    /\ send.err # None

\* The error kind each channel retries on.
RetriesOn(kind) ==
    CASE kind \in {"Slack", "Discord", "Channel"} -> "HTTPError"
      [] kind = "Email" -> "SMTPRecipientsRefused"
      [] kind = "Teams" -> "TeamsWebhookException"

\* C22: Slack, Discord and Channel retry only on HTTPError, Email only on
\* SMTPRecipientsRefused, Teams only on TeamsWebhookException; a first error
\* of any other kind, the transient kind of another channel included, is not
\* retried, emits no warning and propagates.
C22_KindPerChannel ==
    SendOver
    => LET first == Transports[1].outcome IN
       /\ objs[send.inst].raised_error_type = RetriesOn(SendKind)
       /\ Len(Transports) = 2 <=> first = RetriesOn(SendKind)
       /\ first \notin {"ok", RetriesOn(SendKind)}
          => /\ Len(Transports) = 1
             /\ Warnings = <<>>
             /\ Sleeps = <<>>
             /\ send.err = Some(Error(first, <<>>, "transport"))

C22_Witness ==
    /\ SendOver
    /\ SendKind = "Email"
    /\ Transports = <<TransportCall(objs[send.inst], 1, "HTTPError")>>
    /\ Warnings = <<>>
    /\ send.err = Some(Error("HTTPError", <<>>, "transport"))

----------------------------------------------------------------------------
(* The subject in use *)

\* What stands before and after the subject in the content a transport call
\* is handed, the message left aside.
Before(kind) == IF kind = "Email" THEN S_Subject ELSE Marker(kind)
After(kind) == IF kind = "Email" THEN <<"\n", "\n">> ELSE Marker(kind) \o <<"\n">>

\* The content handed to a transport call.
Content(kind, kwargs) ==
    IF kind = "Email" THEN Some(kwargs.msg) ELSE Handed(kind, kwargs)

\* The subject a transport call carries: what stands between Before and
\* After \o message in its content, or None when the content has not that
\* shape.
SubjectUsed(kind, kwargs, message) ==
    LET content == Content(kind, kwargs)
        head == Len(Before(kind))
        tail == After(kind) \o message
    IN IF content = None THEN None
       ELSE LET c == content.val
                n == Len(c)
            IN IF /\ n >= head + Len(tail)
                  /\ SubSeq(c, 1, head) = Before(kind)
                  /\ SubSeq(c, n - Len(tail) + 1, n) = tail
               THEN Some(SubSeq(c, head + 1, n - Len(tail)))
               ELSE None

\* C23: in every channel the default subject is used if and only if the
\* subject argument is None; a supplied string, the empty string included,
\* is used as given.
C23_DefaultOnlyWhenUnset ==
    \A k \in DOMAIN Transports :
        LET used == SubjectUsed(CallKind, Transports[k].kwargs, Call.message) IN
        /\ used # None
        /\ used = Some(DefaultSubject(CallKind)) <=> Call.subject = None
        /\ Call.subject # None => used = Call.subject

C23_Witness ==
    /\ Len(Transports) >= 1
    /\ CallKind = "Teams"
    /\ Call.subject = Some(<<>>)
    /\ SubjectUsed(CallKind, Transports[1].kwargs, Call.message) = Some(<<>>)

----------------------------------------------------------------------------
(* Payload binding *)

\* The send_notification the script made just before, on the same instance,
\* was given up after two failures.
PreviousAbandoned ==
    /\ wrap = NoFrame
    /\ prev.call = "send_notification"
    /\ prev.inst = send.inst
    /\ Len(prev.transports) = 2
    /\ \A k \in DOMAIN prev.transports : prev.transports[k].outcome = SendTransient

\* C24: every transport call of a send_notification carries the payload
\* built from that call's own message and subject, so the retry transmits
\* the payload of the first attempt; a message given up after two failures
\* is not transmitted again by a later send_notification of another message.
C24_PayloadBinding ==
    SendOver
    => /\ \A k \in DOMAIN Transports :
              /\ Transports[k].kwargs = Transports[1].kwargs
              /\ SubjectUsed(SendKind, Transports[k].kwargs, send.message)
                     = Some(IF send.subject = None THEN DefaultSubject(SendKind)
                            ELSE send.subject.val)
       /\ (PreviousAbandoned /\ prev.message # send.message)
          => \A k \in DOMAIN Transports, j \in DOMAIN prev.transports :
                 Transports[k].kwargs # prev.transports[j].kwargs

C24_Witness ==
    /\ SendOver
    /\ PreviousAbandoned
    /\ prev.message # send.message
    /\ Len(Transports) = 2
    /\ Transports[2].kwargs = Transports[1].kwargs

----------------------------------------------------------------------------
(* Termination *)

\* send_notification is inside _send_notification.
InSend == pc \in {"try1", "warn1", "sleep", "try2", "warn2"}

\* C25: provided each transport call and the sleep terminate, every
\* send_notification comes to its end, by returning or by raising, and has
\* made at most two transport calls and at most one sleep.
C25_Termination ==
    /\ InSend ~> SendOver
    /\ [](Len(Transports) <= 2 /\ Len(Sleeps) <= 1)

C25_Witness ==
    /\ SendOver
    /\ Len(Transports) = 2
    /\ Len(Sleeps) = 1
    /\ send.err # None

----------------------------------------------------------------------------
(* The email subject formatter *)

\* C26: EmailNotificator._format_subject(S) returns S unchanged, for every
\* subject S given to an email notificator.
C26_EmailFormatIdentity ==
    (SendCalls # <<>> /\ CallKind = "Email" /\ Call.subject # None)
    => FormatSubject("Email", Call.subject.val) = Call.subject

----------------------------------------------------------------------------
(* The Teams connector card *)

\* The calls made on the connector card during the send_notification, in
\* order.
CardCalls ==
    IF Len(Transports) = 0 THEN <<>>
    ELSE IF Len(Transports) = 1 THEN Transports[1].card
    ELSE Transports[1].card \o Transports[2].card

\* C27: each transport attempt of TeamsNotificator sets the card text to the
\* formatted message and then calls send; when send raises
\* TeamsWebhookException the retry sets the same text and calls send again:
\* an exhausted send makes the calls text, send, text, send on the card.
C27_TeamsAttempts ==
    (SendOver /\ SendKind = "Teams")
    => LET text == [call |-> "text",
                    text |-> <<"*", "*">>
                             \o (IF send.subject = None THEN S_TeamsDefault
                                 ELSE send.subject.val)
                             \o <<"*", "*", "\n">> \o send.message]
       IN /\ \A k \in DOMAIN Transports :
                 Transports[k].card =
                     <<text, [call |-> "send", outcome |-> Transports[k].outcome]>>
          /\ (\A k \in DOMAIN Transports :
                  Transports[k].outcome = "TeamsWebhookException")
             => CardCalls = <<text, [call |-> "send", outcome |-> "TeamsWebhookException"],
                              text, [call |-> "send", outcome |-> "TeamsWebhookException"]>>

C27_Witness ==
    /\ SendOver
    /\ SendKind = "Teams"
    /\ Len(CardCalls) = 4
    /\ CardCalls[1].call = "text" /\ CardCalls[3] = CardCalls[1]
    /\ CardCalls[2].call = "send" /\ CardCalls[4].outcome = "TeamsWebhookException"

----------------------------------------------------------------------------
(* Failure while reporting *)

\* The last transport call of the report raised an error that
\* _send_notification does not catch.
ReportFailed ==
    /\ DecoratedOver
    /\ WorkRaised
    /\ Transports # <<>>
    /\ Transports[Len(Transports)].outcome
           \notin {"ok", TransientKind(objs[result.inst].kind)}

\* C28: if the wrapped work raises and send_notification itself raises while
\* the wrapper reports that failure, the wrapped call does not return
\* normally: an error reaches the caller of the wrapped function.
C28_FailureWhileReporting ==
    ReportFailed
    => /\ result.outcome = "raised"
       /\ result.err # None
       /\ result.err.val.type = Transports[Len(Transports)].outcome

C28_Witness ==
    /\ ReportFailed
    /\ Len(Transports) = 2
    /\ result.err = Some(Error("ConnectionError", <<>>, "transport"))

----------------------------------------------------------------------------
(* Email construction *)

\* The SMTP handle given to the constructor failed during the handshake.
HandleFailed ==
    /\ result.err # None
    /\ result.err.val.origin \in {"starttls", "login"}

\* C29: given a working SMTP handle, constructing an EmailNotificator
\* succeeds and yields SMTPRecipientsRefused as its transient-error kind,
\* whether or not requests is available.
C29_EmailConstruction ==
    (Constructed /\ result.kind = "Email" /\ ~HandleFailed)
    => /\ result.outcome = "returned"
       /\ objs[result.inst].kind = "Email"
       /\ objs[result.inst].raised_error_type = "SMTPRecipientsRefused"

----------------------------------------------------------------------------
(* The legacy email notificator: one connection per send *)

LegacyOrder == <<"ehlo", "starttls", "login", "sendmail", "close">>
LegacyOver == pc = "legacy_exit"

\* C30: every send_notification of the legacy email notificator performs, in
\* order, ehlo, starttls, login, one sendmail with content
\* 'Subject: ' + subject + '\n\n' + text, and close, with no retry; an error
\* raised by one of these steps propagates and the later steps, close
\* included, are not executed.
C30_LegacyEmail ==
    LegacyOver
    => LET n == Len(events) IN
       /\ n \in 1..5
       /\ \A k \in 1..n : events[k].call = LegacyOrder[k]
       /\ \A k \in 1..(n - 1) : events[k].outcome = "ok"
       /\ n >= 4
          => events[4].args = <<SenderEmail(send.inst), DestinationEmail(send.inst),
                                S_Subject \o send.subject \o <<"\n", "\n">> \o send.text>>
       /\ send.err = None <=> (n = 5 /\ events[5].outcome = "ok")
       /\ events[n].outcome # "ok"
          => send.err = Some(Error(events[n].outcome, <<>>, LegacyOrder[n]))

C30_Witness ==
    /\ LegacyOver
    /\ Len(events) = 4
    /\ events[4].call = "sendmail"
    /\ events[4].outcome = "SMTPRecipientsRefused"
    /\ send.err # None
    /\ smtp[send.inst] = "logged_in"

============================================================================
